---- MODULE Spec2Model ----
(***************************************************************************)
(* Smart Queue System (src/app.py): the patients and queue tables of       *)
(* hospital.db and the handlers of the Streamlit pages that change them.   *)
(*                                                                         *)
(* Execution model.  Streamlit runs app.py from its first line to its last *)
(* in a fresh module namespace for every run of every browser session, so  *)
(* lines 15-16 give each run its own sqlite3 connection and cursor; the    *)
(* runs of different sessions share only the database file.  Every CRUD    *)
(* function is one sqlite3 transaction (implicit BEGIN at its first        *)
(* UPDATE/INSERT, conn.commit() at its end) and SQLite admits one writer   *)
(* at a time, so a CRUD function is one atomic step; the kiosk handler is  *)
(* two transactions (add_patient, then add_to_queue) and other sessions    *)
(* can run between them.                                                   *)
(***************************************************************************)
EXTENDS Integers, Sequences, FiniteSets, TLC

\* ----------------------------------------------------------------- bounds
MaxPatients == 2
MaxDay == 1
MaxSec == 0
MaxUsec == 1

\* -------------------------------------------------------------- constants
\* '%y%m%d%H%M%S%f' is three groups of FieldWidth characters: the date, the
\* time of day in seconds, the microseconds; [-12:] keeps TicketChars of them.
FieldWidth == 6
TicketChars == 12

Sessions == {"s1", "s2"}

\* a column is NULL or holds the fields of its value
NULL == <<>>

\* st.selectbox("Send patient to", ...)
DoctorChoices == {"Pharmacy", "Lab", "Payment"}
\* the sections of the three dashboards that call mark_done_by_queue
Sections == {"Pharmacy", "Lab", "Payment"}
\* values of the triage form: weight, height, bp
VitalsInputs == {<<60, 165, "120/80">>}
\* values of the doctor form's text area
ConditionInputs == {"flu"}
\* values of the kiosk form: first name (may be left empty), surname, and an
\* age that st.number_input("Age", 0, 120) keeps within 0..120
KioskFirstNames == {"Ann", ""}
KioskSurname == "Doe"
KioskAges == {30}

\* the session of the Patient Records page that saves an uploaded file
UploadSession == "s3"

Cursors == Sessions \cup {UploadSession}

\* rows of an uploaded file: first_name, surname and an age cell that holds a
\* number or some other text
ImportRows ==
    { [first_name |-> "Ann", surname |-> "Doe", age |-> [numeric |-> TRUE, value |-> 30]],
      [first_name |-> "Bob", surname |-> "Doe", age |-> [numeric |-> TRUE, value |-> 150]],
      [first_name |-> "Cy", surname |-> "Doe", age |-> [numeric |-> FALSE, value |-> 0]] }

\* new_df: the uploaded files, of one row up to MaxPatients rows
Batches == UNION {[1..n -> ImportRows] : n \in 1..MaxPatients}

VARIABLES patients, queue, now, pc, form, pid, lastrowid, tv, result, upload

vars == <<patients, queue, now, pc, form, pid, lastrowid, tv, result, upload>>

\* c = conn.cursor(): the cursor of the script run of session s
shared_cursor(s) == "s1"

cursor_of(s) == s

\* ------------------------------------------------------------------ clock
Clock == [day : 0..MaxDay, sec : 0..MaxSec, usec : 0..MaxUsec]

Before(a, b) ==
    \/ a.day < b.day
    \/ a.day = b.day /\ a.sec < b.sec
    \/ a.day = b.day /\ a.sec = b.sec /\ a.usec < b.usec

\* datetime.datetime.now().strftime('%y%m%d%H%M%S%f')
strftime_ticket(t) == <<t.day, t.sec, t.usec>>

\* datetime.datetime.now().strftime("%Y-%m-%d %H:%M:%S")
strftime_seconds(t) == <<t.day, t.sec>>

\* s[-n:] of a sequence of fields
Last(s, n) == SubSeq(s, Len(s) - n + 1, Len(s))

generate_ticket(t) == Last(strftime_ticket(t), TicketChars \div FieldWidth)

\* ------------------------------------------------------------------ state
Init ==
    /\ patients = <<>>
    /\ queue = <<>>
    /\ now = [day |-> 0, sec |-> 0, usec |-> 0]
    /\ pc = [s \in Sessions |-> "idle"]
    /\ form = [s \in Sessions |-> NULL]
    /\ pid = [s \in Sessions |-> 0]
    /\ lastrowid = [c \in Cursors |-> 0]
    /\ tv = NULL
    /\ result = "none"
    /\ upload = [batch |-> <<>>, row |-> 0]

Tick ==
    /\ \E t \in Clock : Before(now, t) /\ now' = t
    /\ UNCHANGED <<patients, queue, pc, form, pid, lastrowid, tv, result, upload>>

\* ------------------------------------------------------ CRUD / flow functions
\* INSERT INTO patients (...): AUTOINCREMENT id = position in the table
add_patient(ps, first_name, surname, age) ==
    Append(ps, [first_name |-> first_name, surname |-> surname, age |-> age,
                vitals |-> NULL, condition |-> NULL])

\* queue_id INTEGER PRIMARY KEY AUTOINCREMENT: one more than the largest id the
\* table has ever held (no row is ever deleted)
RECURSIVE MaxId(_)
MaxId(q) ==
    IF q = <<>> THEN 0
    ELSE LET m == MaxId(Tail(q))
         IN  IF Head(q).queue_id > m THEN Head(q).queue_id ELSE m

autoincrement_stuck(q) == 1

autoincrement(q) == MaxId(q) + 1

\* INSERT INTO queue (...) VALUES (patient_id, ticket, entry_time, 'Entry',
\* destination or "Triage", "waiting"); exit_time is left NULL
add_to_queue_at_triage(q, patient_id, t) ==
    Append(q, [queue_id      |-> autoincrement(q),
               patient_id    |-> patient_id,
               ticket_number |-> generate_ticket(t),
               entry_time    |-> strftime_seconds(t),
               exit_time     |-> NULL,
               location      |-> "Triage",
               status        |-> "waiting",
               destination   |-> "Triage"])

add_to_queue(q, patient_id, t) ==
    Append(q, [queue_id      |-> autoincrement(q),
               patient_id    |-> patient_id,
               ticket_number |-> generate_ticket(t),
               entry_time    |-> strftime_seconds(t),
               exit_time     |-> NULL,
               location      |-> "Entry",
               status        |-> "waiting",
               destination   |-> "Triage"])

\* UPDATE patients SET weight=?, height=?, bp=? WHERE id=?
triage_patients(ps, patient_id, v) ==
    [i \in 1..Len(ps) |-> IF i = patient_id THEN [ps[i] EXCEPT !.vitals = v] ELSE ps[i]]

\* UPDATE queue SET location='Triage', destination='Consultation' WHERE patient_id=?
triage_queue_every_ticket(q, patient_id) ==
    [i \in 1..Len(q) |-> [q[i] EXCEPT !.location = "Triage", !.destination = "Consultation"]]

triage_queue(q, patient_id) ==
    [i \in 1..Len(q) |->
        IF q[i].patient_id = patient_id
        THEN [q[i] EXCEPT !.location = "Triage", !.destination = "Consultation"]
        ELSE q[i]]

\* UPDATE patients SET condition=? WHERE id=?
doctor_patients(ps, patient_id, cond) ==
    [i \in 1..Len(ps) |-> IF i = patient_id THEN [ps[i] EXCEPT !.condition = <<cond>>] ELSE ps[i]]

\* UPDATE queue SET location='Doctor', destination=?, status='waiting' WHERE patient_id=?
doctor_queue_status_caps(q, patient_id, dest) ==
    [i \in 1..Len(q) |->
        IF q[i].patient_id = patient_id
        THEN [q[i] EXCEPT !.location = "Doctor", !.destination = dest, !.status = "Waiting"]
        ELSE q[i]]

doctor_queue(q, patient_id, dest) ==
    [i \in 1..Len(q) |->
        IF q[i].patient_id = patient_id
        THEN [q[i] EXCEPT !.location = "Doctor", !.destination = dest, !.status = "waiting"]
        ELSE q[i]]

\* UPDATE queue SET location=?, status='done', exit_time=? WHERE queue_id=?
mark_done_no_exit_time(q, queue_id, section, t) ==
    [i \in 1..Len(q) |->
        IF q[i].queue_id = queue_id
        THEN [q[i] EXCEPT !.location = section, !.status = "done"]
        ELSE q[i]]

mark_done_keeps_status(q, queue_id, section, t) ==
    [i \in 1..Len(q) |->
        IF q[i].queue_id = queue_id
        THEN [q[i] EXCEPT !.location = section, !.exit_time = strftime_seconds(t)]
        ELSE q[i]]

mark_done_by_queue(q, queue_id, section, t) ==
    [i \in 1..Len(q) |->
        IF q[i].queue_id = queue_id
        THEN [q[i] EXCEPT !.location = section, !.status = "done",
                          !.exit_time = strftime_seconds(t)]
        ELSE q[i]]

\* SELECT ... FROM queue WHERE status='waiting' ORDER BY queue_id ASC LIMIT 1
WaitingIds(q) == {q[i].queue_id : i \in {j \in 1..Len(q) : q[j].status = "waiting"}}

RECURSIVE FirstFrom(_, _)
FirstFrom(S, i) == IF i \in S THEN i ELSE FirstFrom(S, i + 1)

RECURSIVE LastFrom(_, _)
LastFrom(S, i) == IF i \in S THEN i ELSE LastFrom(S, i - 1)

next_df_desc(q) ==
    IF WaitingIds(q) = {} THEN NULL
    ELSE <<LastFrom(WaitingIds(q), Len(q))>>

next_df(q) ==
    IF WaitingIds(q) = {} THEN NULL
    ELSE <<FirstFrom(WaitingIds(q), 1)>>

\* Pharmacy / Lab / Payment dashboards: SELECT ... FROM queue q ... WHERE
\* q.destination=<section> AND q.status!='done' ORDER BY q.queue_id
StationIds(q, section) ==
    {q[i].queue_id : i \in {j \in 1..Len(q) : q[j].destination = section /\ q[j].status # "done"}}

\* Triage page: qdf[(status == 'waiting') & (location.isin(['Entry','Triage']))]
triage_waiting(q) ==
    {q[i].queue_id : i \in {j \in 1..Len(q) :
        q[j].status = "waiting" /\ q[j].location \in {"Entry", "Triage"}}}

\* Doctor page: qdf[(status == 'waiting') & (destination.isin(['Consultation', None]))];
\* add_to_queue always stores a destination, so None matches no ticket
consult_wait(q) ==
    {q[i].queue_id : i \in {j \in 1..Len(q) :
        q[j].status = "waiting" /\ q[j].destination = "Consultation"}}

\* the work lists of the station pages that show the ticket
WorkLists(q, queue_id) ==
    (IF queue_id \in triage_waiting(q) THEN {"Triage"} ELSE {})
    \cup (IF queue_id \in consult_wait(q) THEN {"Doctor"} ELSE {})
    \cup {section \in Sections : queue_id \in StationIds(q, section)}

RECURSIVE Ascending(_, _, _)
Ascending(S, i, top) ==
    IF i > top THEN <<>>
    ELSE (IF i \in S THEN <<i>> ELSE <<>>) \o Ascending(S, i + 1, top)

list_by_station_with_done(q, section) ==
    Ascending({q[i].queue_id : i \in {j \in 1..Len(q) : q[j].destination = section}}, 1, MaxId(q))

list_by_station(q, section) == Ascending(StationIds(q, section), 1, MaxId(q))

\* c.lastrowid after the INSERT of add_patient: the AUTOINCREMENT id of the row
\* this cursor inserted, the last of the table
rowcount_after_insert(table) == 1

next_rowid(table) == Len(table) + 1

last_insert_rowid(table) == Len(table)

\* ---------------------------------------------------------------- handlers
\* Kiosk (Entry), add_patient: the INSERT of the submitted form and its commit
KioskAddPatient(s, first_name, age) ==
    /\ pc[s] = "idle"
    /\ Len(patients) + Len(upload.batch) < MaxPatients
    /\ patients' = add_patient(patients, first_name, KioskSurname, age)
    /\ lastrowid' = [lastrowid EXCEPT ![cursor_of(s)] = last_insert_rowid(patients')]
    /\ form' = [form EXCEPT ![s] = <<first_name, KioskSurname, age>>]
    /\ pc' = [pc EXCEPT ![s] = "return"]
    /\ UNCHANGED <<queue, now, pid, tv, result, upload>>

\* Kiosk (Entry), add_patient: return c.lastrowid, assigned to pid
KioskReturnId(s) ==
    /\ pc[s] = "return"
    /\ pid' = [pid EXCEPT ![s] = lastrowid[cursor_of(s)]]
    /\ pc' = [pc EXCEPT ![s] = "issue"]
    /\ UNCHANGED <<patients, queue, now, form, lastrowid, tv, result, upload>>

\* Kiosk (Entry), second transaction: ticket = add_to_queue(pid); st.success;
\* the run ends and its connection and cursor with it
KioskAddToQueue(s) ==
    /\ pc[s] = "issue"
    /\ queue' = add_to_queue(queue, pid[s], now)
    /\ lastrowid' = [lastrowid EXCEPT ![cursor_of(s)] = 0]
    /\ form' = [form EXCEPT ![s] = NULL]
    /\ pid' = [pid EXCEPT ![s] = 0]
    /\ pc' = [pc EXCEPT ![s] = "idle"]
    /\ result' = "success"
    /\ UNCHANGED <<patients, now, tv, upload>>

\* Triage form: update_triage(int(pid), float(weight), float(height), bp)
TriageSubmit(patient_id, v) ==
    /\ patients' = triage_patients(patients, patient_id, v)
    /\ queue' = triage_queue(queue, patient_id)
    /\ result' = "success"
    /\ UNCHANGED <<now, pc, form, pid, lastrowid, tv, upload>>

\* Doctor form: update_doctor(int(pid), condition, destination)
DoctorSubmit(patient_id, cond, dest) ==
    /\ patients' = doctor_patients(patients, patient_id, cond)
    /\ queue' = doctor_queue(queue, patient_id, dest)
    /\ result' = "success"
    /\ UNCHANGED <<now, pc, form, pid, lastrowid, tv, upload>>

\* Pharmacy / Lab / Payment dashboards: mark_done_by_queue(int(qid), section)
MarkDone(queue_id, section) ==
    /\ queue' = mark_done_by_queue(queue, queue_id, section, now)
    /\ result' = "success"
    /\ UNCHANGED <<patients, now, pc, form, pid, lastrowid, tv, upload>>

\* UPDATE patients SET first_name=?, middle_name=?, surname=?, age=?, gender=?,
\* weight=?, height=?, bp=?, condition=? WHERE id=?
update_patient(ps, patient_id, first_name, surname, age, vitals, condition) ==
    [i \in 1..Len(ps) |->
        IF i = patient_id
        THEN [first_name |-> first_name, surname |-> surname, age |-> age,
              vitals |-> vitals, condition |-> condition]
        ELSE ps[i]]

\* SELECT id FROM patients WHERE first_name=? AND surname=? AND age=?; fetchone()
Matching(ps, first_name, surname, age) ==
    {i \in 1..Len(ps) : ps[i].first_name = first_name /\ ps[i].surname = surname
                          /\ ps[i].age = age}

\* Patient Records, "Save Uploaded Data": the button starts the loop over new_df
ImportStart(b) ==
    /\ upload.batch = <<>>
    /\ Len(patients) + Len(b) <= MaxPatients
    /\ upload' = [batch |-> b, row |-> 1]
    /\ UNCHANGED <<patients, queue, now, pc, form, pid, lastrowid, tv, result>>

\* one iteration of the loop: int(row.get("age", 0)) raises ValueError on a
\* cell that is not a number and the exception ends the run; otherwise the row
\* updates the patient it matches or is added.  After the last row the page
\* shows st.success.  The row has no weight/height/bp/condition column:
\* row.get(..., None) is None.
ImportRow ==
    /\ upload.batch # <<>>
    /\ LET r == upload.batch[upload.row]
           last == upload.row = Len(upload.batch)
       IN  IF ~r.age.numeric
           THEN /\ upload' = [batch |-> <<>>, row |-> 0]
                /\ result' = "ValueError"
                /\ lastrowid' = [lastrowid EXCEPT ![cursor_of(UploadSession)] = 0]
                /\ UNCHANGED patients
           ELSE /\ LET existing == Matching(patients, r.first_name, r.surname, r.age.value)
                   IN  IF existing # {}
                       THEN /\ patients' = update_patient(patients, FirstFrom(existing, 1),
                                               r.first_name, r.surname, r.age.value, NULL, NULL)
                            /\ lastrowid' = IF last
                                  THEN [lastrowid EXCEPT ![cursor_of(UploadSession)] = 0]
                                  ELSE lastrowid
                       ELSE /\ patients' = add_patient(patients, r.first_name, r.surname, r.age.value)
                            /\ lastrowid' = [lastrowid EXCEPT ![cursor_of(UploadSession)] =
                                  IF last THEN 0 ELSE last_insert_rowid(patients')]
                /\ upload' = IF last THEN [batch |-> <<>>, row |-> 0]
                                     ELSE [upload EXCEPT !.row = upload.row + 1]
                /\ result' = IF last THEN "success" ELSE result
    /\ UNCHANGED <<queue, now, pc, form, pid, tv>>

\* TV Display: one poll of the next ticket to call
TVDisplay ==
    /\ tv' = next_df(queue)
    /\ UNCHANGED <<patients, queue, now, pc, form, pid, lastrowid, result, upload>>

\* st.number_input(..., min_value=1, step=1): any id, known to the tables or not
PatientIds == 1..(MaxPatients + 1)
QueueIds == 1..(MaxPatients + 1)

\* the pipeline never reads a name: its kiosk registrations all enter this one
PipelineFirstNames == {"Ann"}

Next ==
    \/ Tick
    \/ \E s \in Sessions, fn \in PipelineFirstNames, a \in KioskAges : KioskAddPatient(s, fn, a)
    \/ \E s \in Sessions : KioskReturnId(s)
    \/ \E s \in Sessions : KioskAddToQueue(s)
    \/ \E p \in PatientIds, v \in VitalsInputs : TriageSubmit(p, v)
    \/ \E p \in PatientIds, cnd \in ConditionInputs, d \in DoctorChoices : DoctorSubmit(p, cnd, d)
    \/ \E q \in QueueIds, sec \in Sections : MarkDone(q, sec)
    \/ TVDisplay

Spec == Init /\ [][Next]_vars

\* update_doctor called as a function, with a destination the doctor form's
\* selectbox does not offer
OtherDestinations == {"Ward"}

UpdateDoctorCall(patient_id, cond, dest) ==
    /\ patients' = doctor_patients(patients, patient_id, cond)
    /\ queue' = doctor_queue(queue, patient_id, dest)
    /\ UNCHANGED <<now, pc, form, pid, lastrowid, tv, result, upload>>

NextApi ==
    \/ Next
    \/ \E p \in PatientIds, cnd \in ConditionInputs, d \in OtherDestinations :
          UpdateDoctorCall(p, cnd, d)

SpecApi == Init /\ [][NextApi]_vars

\* the kiosk and the station pages, with staff who do not leave a form that
\* stays available unsubmitted for ever: weak fairness of every submission of
\* the triage form, the doctor form and the dashboards' "Mark Done" buttons
\* (the clock and the display poll are left out: no handler reads the clock
\* or the display to decide a status, location or destination)
NextStations ==
    \/ \E s \in Sessions, fn \in PipelineFirstNames, a \in KioskAges : KioskAddPatient(s, fn, a)
    \/ \E s \in Sessions : KioskReturnId(s)
    \/ \E s \in Sessions : KioskAddToQueue(s)
    \/ \E p \in PatientIds, v \in VitalsInputs : TriageSubmit(p, v)
    \/ \E p \in PatientIds, cnd \in ConditionInputs, d \in DoctorChoices : DoctorSubmit(p, cnd, d)
    \/ \E q \in QueueIds, sec \in Sections : MarkDone(q, sec)

StationFairness ==
    /\ \A p \in PatientIds, v \in VitalsInputs : WF_vars(TriageSubmit(p, v))
    /\ \A p \in PatientIds, cnd \in ConditionInputs, d \in DoctorChoices :
          WF_vars(DoctorSubmit(p, cnd, d))
    /\ \A q \in QueueIds, sec \in Sections : WF_vars(MarkDone(q, sec))

SpecFair == Init /\ [][NextStations]_vars /\ StationFairness

\* the registration paths: the kiosk, and the upload of the Patient Records page
NextRegistry ==
    \/ Tick
    \/ \E s \in Sessions, fn \in KioskFirstNames, a \in KioskAges : KioskAddPatient(s, fn, a)
    \/ \E s \in Sessions : KioskReturnId(s)
    \/ \E s \in Sessions : KioskAddToQueue(s)
    \/ \E b \in Batches : ImportStart(b)
    \/ ImportRow

SpecRegistry == Init /\ [][NextRegistry]_vars

\* add_to_queue called as a function, with an id the patients table does not hold
AddToQueueCall(patient_id) ==
    /\ patient_id \notin 1..Len(patients)
    /\ Len(queue) < MaxPatients
    /\ queue' = add_to_queue(queue, patient_id, now)
    /\ UNCHANGED <<patients, now, pc, form, pid, lastrowid, tv, result, upload>>

NextRegistryApi ==
    \/ NextRegistry
    \/ \E p \in PatientIds : AddToQueueCall(p)

SpecRegistryApi == Init /\ [][NextRegistryApi]_vars

\* ------------------------------------------------------------------ claims
\* C1: in every reachable state a ticket's completion timestamp (exit_time)
\* is set if and only if the ticket's status is done.
ExitTimeIffDone ==
    \A i \in 1..Len(queue) : (queue[i].exit_time # NULL) <=> (queue[i].status = "done")

\* C2: Done is terminal: no step changes the status of a done ticket.
DoneIsTerminal ==
    [][\A i \in 1..Len(queue) : queue[i].status = "done" => queue'[i].status = "done"]_vars

\* C3: a completeStation call on a ticket that is already done fails with
\* AlreadyDone and leaves the ticket's location, status and completion
\* timestamp as they were.
SecondCompleteRejected ==
    [][\A q \in QueueIds, sec \in Sections :
          (q <= Len(queue) /\ queue[q].status = "done" /\ MarkDone(q, sec))
          => /\ result' = "AlreadyDone"
             /\ queue'[q].location = queue[q].location
             /\ queue'[q].status = queue[q].status
             /\ queue'[q].exit_time = queue[q].exit_time]_vars

\* C4: in every reachable state each patient has at most one waiting ticket.
AtMostOneWaitingPerPatient ==
    \A i, j \in 1..Len(queue) :
        (i # j /\ queue[i].patient_id = queue[j].patient_id)
        => ~(queue[i].status = "waiting" /\ queue[j].status = "waiting")

\* C4 witness: two tickets are waiting at once, one of them completed at a
\* station and put back to waiting by the doctor form.
TwoPatientsWaiting ==
    \E i, j \in 1..Len(queue) :
        /\ i # j
        /\ queue[i].status = "waiting" /\ queue[j].status = "waiting"
        /\ queue[i].exit_time # NULL

\* C5: a completeStation call for a station that is not the ticket's
\* destination fails with StationMismatch and does not change the ticket.
WrongStationRejected ==
    [][\A q \in QueueIds, sec \in Sections :
          (q <= Len(queue) /\ queue[q].destination # sec /\ MarkDone(q, sec))
          => (result' = "StationMismatch" /\ queue'[q] = queue[q])]_vars

\* C6: recordTriage for a registered patient with no waiting ticket at Entry
\* or Triage (no ticket, only done tickets, or a ticket already at Doctor or
\* at a destination station) fails with NoActiveTicket, writes no vitals and
\* changes no ticket.
HasTriageTicket(p) ==
    \E i \in 1..Len(queue) :
        /\ queue[i].patient_id = p
        /\ queue[i].status = "waiting"
        /\ queue[i].location \in {"Entry", "Triage"}

TriageWithoutTicketRejected ==
    [][\A p \in PatientIds, v \in VitalsInputs :
          (p <= Len(patients) /\ ~HasTriageTicket(p) /\ TriageSubmit(p, v))
          => (result' = "NoActiveTicket" /\ patients' = patients /\ queue' = queue)]_vars

\* C7: the ticket codes of all issued tickets are pairwise distinct.
TicketCodesUnique ==
    \A i, j \in 1..Len(queue) :
        i # j => queue[i].ticket_number # queue[j].ticket_number

\* C8: a race has one winner and one rejected loser: a ticket the doctor has
\* forwarded to a station is not put back to Triage/Consultation by the triage
\* call that lost the race, and a ticket one station completed is not moved by
\* the other station's call.
RaceHasRejectedLoser ==
    [][\A i \in 1..Len(queue) :
          /\ (queue[i].location = "Doctor" /\ queue[i].destination \in DoctorChoices)
             => ~(queue'[i].location = "Triage" /\ queue'[i].destination = "Consultation")
          /\ queue[i].status = "done" => queue'[i].location = queue[i].location]_vars

InvalidDestinationRejected ==
    [][\A p \in PatientIds, cnd \in ConditionInputs, d \in OtherDestinations :
          ((\E i \in 1..Len(queue) : queue[i].patient_id = p) /\ UpdateDoctorCall(p, cnd, d))
          => (result' = "InvalidDestination" /\ queue' = queue)]_vars

\* C11: issuing a ticket for the registered patient appends exactly one
\* ticket, with location Entry, status waiting, destination Triage and no
\* completion timestamp, and leaves every earlier ticket as it was.
IssueCreatesOneTicket ==
    [][\A s \in Sessions :
          KioskAddToQueue(s)
          => /\ Len(queue') = Len(queue) + 1
             /\ SubSeq(queue', 1, Len(queue)) = queue
             /\ queue'[Len(queue')].patient_id = pid[s]
             /\ pid[s] \in 1..Len(patients)
             /\ queue'[Len(queue')].location = "Entry"
             /\ queue'[Len(queue')].status = "waiting"
             /\ queue'[Len(queue')].destination = "Triage"
             /\ queue'[Len(queue')].exit_time = NULL]_vars

\* C11 witness: a second ticket has just been issued after the first one was
\* forwarded by the doctor and completed.
IssuedAfterCompleted ==
    /\ Len(queue) = 2
    /\ queue[1].status = "done" /\ queue[1].destination \in DoctorChoices
    /\ queue[2].location = "Entry" /\ queue[2].status = "waiting"
    /\ queue[2].destination = "Triage" /\ queue[2].exit_time = NULL
    /\ result = "success"

\* C12: a station's list holds exactly the ids of the tickets that are not
\* done and whose destination is that station, in ascending order of
\* creation; a ticket completed at the station is not in it.
ListByStationExact ==
    \A sec \in Sections :
        LET l == list_by_station(queue, sec)
        IN  /\ \A i \in 1..Len(queue) :
                  (queue[i].status # "done" /\ queue[i].destination = sec)
                  <=> (\E k \in 1..Len(l) : l[k] = queue[i].queue_id)
            /\ \A k \in 1..Len(l) : \E i \in 1..Len(queue) : queue[i].queue_id = l[k]
            /\ \A k1, k2 \in 1..Len(l) : k1 < k2 => l[k1] < l[k2]

\* C12 witness: of two tickets the doctor sent to one station, the first has
\* been completed there and the list of the station shows only the second.
ListDropsCompleted ==
    \E sec \in Sections :
        /\ Len(queue) = 2
        /\ queue[1].destination = sec /\ queue[1].location = sec /\ queue[1].status = "done"
        /\ queue[2].destination = sec /\ queue[2].location = "Doctor" /\ queue[2].status = "waiting"
        /\ list_by_station(queue, sec) = <<queue[2].queue_id>>

\* C13: the happy path: triage moves a waiting ticket at Entry to Triage with
\* destination Consultation; the doctor's decision d moves a triaged ticket to
\* Doctor with destination d, still waiting; completing it at d makes it done
\* at location d with a completion timestamp.
HappyPathSteps ==
    [][\A i \in 1..Len(queue) :
          (queue[i].status = "waiting" /\ result' = "success" /\ now' = now /\ tv' = tv) =>
             /\ \A v \in VitalsInputs :
                   (queue[i].location = "Entry" /\ TriageSubmit(queue[i].patient_id, v))
                   => (queue'[i].location = "Triage" /\ queue'[i].destination = "Consultation"
                       /\ queue'[i].status = "waiting"
                       /\ patients'[queue[i].patient_id].vitals = v)
             /\ \A cnd \in ConditionInputs, d \in DoctorChoices :
                   (queue[i].location = "Triage" /\ queue[i].destination = "Consultation"
                       /\ DoctorSubmit(queue[i].patient_id, cnd, d))
                   => (queue'[i].location = "Doctor" /\ queue'[i].destination = d
                       /\ queue'[i].status = "waiting")
             /\ \A sec \in Sections :
                   (queue[i].location = "Doctor" /\ queue[i].destination = sec
                       /\ MarkDone(queue[i].queue_id, sec))
                   => (queue'[i].status = "done" /\ queue'[i].location = sec
                       /\ queue'[i].exit_time # NULL)]_vars

\* C13 witness: a ticket of a triaged and diagnosed patient is done at the
\* station the doctor chose.
HappyPathDone ==
    \E i \in 1..Len(queue) :
        /\ queue[i].status = "done" /\ queue[i].exit_time # NULL
        /\ queue[i].destination \in DoctorChoices
        /\ queue[i].location = queue[i].destination
        /\ patients[queue[i].patient_id].vitals # NULL
        /\ patients[queue[i].patient_id].condition # NULL

\* C17: no step moves a ticket's location to an earlier stage of
\* Entry -> Triage -> Doctor -> {Pharmacy | Lab | Payment}.
Stage(loc) ==
    CASE loc = "Entry" -> 0
      [] loc = "Triage" -> 1
      [] loc = "Doctor" -> 2
      [] OTHER -> 3

LocationMovesForward ==
    [][\A i \in 1..Len(queue) : Stage(queue'[i].location) >= Stage(queue[i].location)]_vars

TicketIdsMonotonic ==
    [][/\ Len(queue') >= Len(queue)
       /\ \A i \in 1..Len(queue) : queue'[i].queue_id = queue[i].queue_id
       /\ \A j \in (Len(queue) + 1)..Len(queue') :
             \A i \in 1..Len(queue) : queue'[j].queue_id > queue[i].queue_id
       /\ \A i, j \in 1..Len(queue') : i < j => queue'[i].queue_id < queue'[j].queue_id]_vars

\* C19 witness: two tickets issued at one clock reading (same second, same
\* entry_time) are both waiting and the display calls the one issued first.
SameSecondOrdered ==
    /\ Len(queue) = 2
    /\ queue[1].entry_time = queue[2].entry_time
    /\ queue[1].status = "waiting" /\ queue[2].status = "waiting"
    /\ queue[1].queue_id < queue[2].queue_id
    /\ tv = <<queue[1].queue_id>>

\* C14: issuing a ticket for a patient id that is not in the patients table
\* fails with NotFound and creates no ticket.
UnknownPatientRejected ==
    [][\A p \in PatientIds :
          (p \notin 1..Len(patients) /\ AddToQueueCall(p))
          => (result' = "NotFound" /\ queue' = queue)]_vars

\* C15: every stored patient has a non-empty first name and an age between 0
\* and 120, whichever of the kiosk and the upload stored it.
StoredPatientsValid ==
    \A i \in 1..Len(patients) :
        patients[i].first_name # "" /\ patients[i].age \in 0..120

\* C16: when the save of an uploaded file ends, every row of the file whose
\* age is a number has been created or updated, before and after any row
\* whose age is not a number.
ImportSavesEveryGoodRow ==
    [][(upload.batch # <<>> /\ upload'.batch = <<>>) =>
          \A k \in 1..Len(upload.batch) :
              upload.batch[k].age.numeric =>
                 Matching(patients', upload.batch[k].first_name, upload.batch[k].surname,
                          upload.batch[k].age.value) # {}]_vars

\* C20: the ticket a kiosk registration issues references the patient row that
\* holds what this registration entered in its form, under every interleaving
\* with the other session's registration and with the rows of an upload.
TicketReferencesOwnPatient ==
    [][\A s \in Sessions :
          KioskAddToQueue(s) =>
             LET t == queue'[Len(queue')]
             IN  /\ t.patient_id = pid[s]
                 /\ t.patient_id \in 1..Len(patients)
                 /\ patients[t.patient_id].first_name = form[s][1]
                 /\ patients[t.patient_id].surname = form[s][2]
                 /\ patients[t.patient_id].age = form[s][3]]_vars

\* C20 witness: two registrations with different first names overlapped and
\* their tickets were issued in the opposite order of their patient rows.
InterleavedRegistrations ==
    /\ Len(queue) = 2 /\ Len(patients) = 2
    /\ patients[1].first_name # patients[2].first_name
    /\ queue[1].patient_id = 2 /\ queue[2].patient_id = 1

\* C21: referential integrity: every ticket's patient_id is the id of a row
\* of the patients table.
TicketsReferToPatients ==
    \A i \in 1..Len(queue) : queue[i].patient_id \in 1..Len(patients)

\* C21 witness: two tickets of two different patients have been issued, and
\* the patient of the second has been through triage and the doctor.
TwoTicketsTwoPatients ==
    /\ Len(queue) = 2
    /\ queue[1].patient_id # queue[2].patient_id
    /\ queue[2].patient_id \in 1..Len(patients)
    /\ patients[queue[2].patient_id].vitals # NULL
    /\ patients[queue[2].patient_id].condition # NULL

\* C22: every waiting ticket is shown in exactly one work list: the triage
\* list, the doctor list and the Pharmacy, Lab and Payment lists are pairwise
\* disjoint and together cover the waiting tickets.
WaitingInExactlyOneList ==
    \A i \in 1..Len(queue) :
        queue[i].status = "waiting" => Cardinality(WorkLists(queue, queue[i].queue_id)) = 1

\* a step leaves every patient row other than p's, and every ticket that does
\* not belong to p, as it was
OnlyPatientChanged(p) ==
    /\ Len(patients') = Len(patients) /\ Len(queue') = Len(queue)
    /\ \A i \in 1..Len(patients) : i # p => patients'[i] = patients[i]
    /\ \A i \in 1..Len(queue) : queue[i].patient_id # p => queue'[i] = queue[i]

\* a step leaves every patient row, and every ticket other than the one with
\* this queue_id, as it was
OnlyTicketChanged(queue_id) ==
    /\ patients' = patients
    /\ Len(queue') = Len(queue)
    /\ \A i \in 1..Len(queue) : queue[i].queue_id # queue_id => queue'[i] = queue[i]

\* C23: frame: the triage form and the doctor form change only the patient
\* row and the tickets of the patient they name; a station completion
\* changes only the ticket it names and no patient row.  Stated per step: a
\* step that changes anything else is not a step of that operation.
StationOperationsFrame ==
    [][/\ \A p \in PatientIds :
             ~OnlyPatientChanged(p) =>
                /\ \A v \in VitalsInputs : ~TriageSubmit(p, v)
                /\ \A cnd \in ConditionInputs, d \in DoctorChoices : ~DoctorSubmit(p, cnd, d)
       /\ \A q \in QueueIds :
             ~OnlyTicketChanged(q) => \A sec \in Sections : ~MarkDone(q, sec)]_vars

\* C23 witness: of two patients with tickets, one has been through triage and
\* the doctor and has been completed at a station, while the other's row and
\* ticket are as the kiosk created them.
OneServedOneUntouched ==
    \E i, j \in 1..Len(queue) :
        /\ queue[i].patient_id # queue[j].patient_id
        /\ queue[i].patient_id \in 1..Len(patients)
        /\ queue[j].patient_id \in 1..Len(patients)
        /\ queue[i].status = "done"
        /\ patients[queue[i].patient_id].vitals # NULL
        /\ patients[queue[i].patient_id].condition # NULL
        /\ queue[j].location = "Entry" /\ queue[j].destination = "Triage"
        /\ queue[j].status = "waiting" /\ queue[j].exit_time = NULL
        /\ patients[queue[j].patient_id].vitals = NULL
        /\ patients[queue[j].patient_id].condition = NULL

\* C24: under weak fairness of the triage, doctor and station-completion
\* submissions, every issued ticket eventually has status done.
EveryTicketEventuallyDone ==
    \A q \in QueueIds :
        (\E i \in 1..Len(queue) : queue[i].queue_id = q)
        ~> (\E i \in 1..Len(queue) : queue[i].queue_id = q /\ queue[i].status = "done")

\* C24 witness: both issued tickets are done, at two different stations.
BothTicketsDone ==
    /\ Len(queue) = 2
    /\ queue[1].status = "done" /\ queue[2].status = "done"
    /\ queue[1].location \in Sections /\ queue[2].location \in Sections
    /\ queue[1].location # queue[2].location

====
